---- MODULE Spec2Model ----
(***************************************************************************)
(* Model of source/DataProcess.py: the class Data_preprocess, its          *)
(* constructor and its two methods prepare_input_data and                  *)
(* get_training_data, driven by a caller that constructs one object and    *)
(* then calls the methods with array-like arguments.                       *)
(*                                                                         *)
(* Arrays are sequences of rows, a row is a sequence of numbers.  The code *)
(* never branches on the value of an entry, so every input array is filled *)
(* with pairwise distinct entries: a lost, duplicated or reordered entry   *)
(* is then visible in the output.  A "prepared" point batch is a sequence  *)
(* of columns, each column a sequence of one-entry rows (shape (m,1)).     *)
(***************************************************************************)
EXTENDS Integers, Sequences, FiniteSets, TLC

VARIABLES obj, rng, last

vars == <<obj, rng, last>>

(* ------------------------------ bounds -------------------------------- *)

\* largest space_dim the caller passes to the constructor
MaxSpaceDim == 2
\* largest number of rows of X_data, Y_data and of explicit collocation points
MaxRows == 2
\* largest integer the caller passes as X_col_points
MaxColPoints == 2
\* largest row width of Y_data (the output dimension o)
MaxOut == 2

\* widest row of X_data / explicit collocation points the caller passes
MaxWidth == MaxSpaceDim + 1
\* the random source is sampled at most problem_dim times by one call
MaxRng == MaxSpaceDim + 1

(* ------------------------------ inputs -------------------------------- *)

\* an interval of dom_bounds: not given, a domain [0,1], a domain [-2,-1]
PairSet == {<<>>, <<0, 1>>, <<-2, -1>>}

\* dom_bounds arguments: up to MaxSpaceDim + 1 pairs, all [0,1] except at
\* most one, the first or the last, which is any pair of PairSet
BoundsInputs ==
    UNION {{b \in [1..k -> PairSet] :
               \E d \in {1, k} : \A i \in 1..k : i # d => b[i] = <<0, 1>>} :
           k \in 0..(MaxSpaceDim + 1)}

\* dist arguments
DistInputs == {"uniform", "normal", "gaussian"}

\* the exception numpy raises for a ragged nested list: np.array itself
\* (ValueError, numpy >= 1.24) or the later 2-d indexing of the 1-d object
\* array older versions build (IndexError)
RaggedErrors == {"ValueError", "IndexError"}

\* array of the given row widths, entries pairwise distinct
Mat(base, widths) ==
    [r \in 1..Len(widths) |-> [c \in 1..widths[r] |-> base + 10 * r + c]]

Rect(m, w) == [r \in 1..m |-> w]

Ragged(m, w, w2) == [r \in 1..m |-> IF r = m THEN w2 ELSE w]

\* row widths of the arrays the caller passes: no rows, rectangular, or
\* the last row one entry longer or shorter than the others
Shapes(maxw) ==
    {<<>>}
    \cup {Rect(m, w) : m \in 1..MaxRows, w \in 1..maxw}
    \cup UNION {{Ragged(m, w, w2) : w2 \in {w - 1, w + 1} \cap 1..maxw} :
                   m \in 2..MaxRows, w \in 1..maxw}

XInputs == {Mat(0, s) : s \in Shapes(MaxWidth)}

YInputs == {Mat(100, s) : s \in Shapes(MaxOut)}

\* explicit collocation points; the empty list is the parameter's default
ColPointInputs == {Mat(200, s) : s \in Shapes(MaxWidth)}

(* --------------------------- array helpers ---------------------------- *)

IsRagged(A) == \E r \in 1..Len(A) : Len(A[r]) # Len(A[1])

\* X_data_np[:,i,np.newaxis]
Column(A, i) == [r \in 1..Len(A) |-> <<A[r][i]>>]

\* np.ones((m,1)) / np.zeros((m,w))
Ones(m) == [r \in 1..m |-> <<1>>]

Zeros(m, w) == [r \in 1..m |-> [c \in 1..w |-> 0]]

\* np.concatenate([A, B], axis=1) of arrays with equally many rows
ConcatCols(A, B) == [r \in 1..Len(A) |-> A[r] \o B[r]]

\* np.concatenate([A, B], axis=0)
ConcatRows(A, B) == A \o B

(* ------------------------------ results ------------------------------- *)

Fail(e) == [err |-> e, X |-> <<>>, Y |-> <<>>]

Return(x, y) == [err |-> "none", X |-> x, Y |-> y]

(* ---------------------------- constructor ----------------------------- *)

NoObject ==
    [built |-> FALSE, space_dim |-> 0, dom_bounds |-> <<>>,
     time_dep |-> FALSE, problem_dim |-> 0]

\* space_dim + time_dep, a bool counted as 0 or 1
ProblemDim(space_dim, time_dep) == space_dim + (IF time_dep THEN 1 ELSE 0)

\* the error __init__ ends in, "none" when it returns
InitError(space_dim, dom_bounds, time_dep) ==
    IF Len(dom_bounds) = 0 THEN "IndexError"
    ELSE IF dom_bounds[1] # <<>>
              /\ Len(dom_bounds) # ProblemDim(space_dim, time_dep)
         THEN "InvalidDomainSpec"
         ELSE "none"

NewObject(space_dim, dom_bounds, time_dep) ==
    [built |-> TRUE, space_dim |-> space_dim, dom_bounds |-> dom_bounds,
     time_dep |-> time_dep, problem_dim |-> ProblemDim(space_dim, time_dep)]

(* ------------------------- prepare_input_data ------------------------- *)

\* WidthOk with the assertion of line 74 dropped
WidthUnchecked(self, X_data) == TRUE

\* the assertion on the row width of X_data
WidthOk(self, X_data) ==
    Len(X_data[1]) = ProblemDim(self.space_dim, self.time_dep)

\* SplitColumns walking the features right to left
SplitColumnsReversed(X_data) ==
    [i \in 1..Len(X_data[1]) |-> Column(X_data, Len(X_data[1]) + 1 - i)]

\* the column layout X_data_return
SplitColumns(X_data) == [i \in 1..Len(X_data[1]) |-> Column(X_data, i)]

\* TagLabels with the flag column put to the left of Y_data
TagLabelsLeft(Y_data) == ConcatCols(Ones(Len(Y_data)), Y_data)

\* Y_data with the column of 1.0 appended
TagLabels(Y_data) == ConcatCols(Y_data, Ones(Len(Y_data)))

prepare_input_data(self, X_data, Y_data, rag) ==
    IF Len(X_data) = 0 THEN Fail("IndexError")
    ELSE IF ~WidthOk(self, X_data) THEN Fail("DimensionMismatch")
    ELSE IF IsRagged(X_data) THEN Fail(rag)
    ELSE IF Len(Y_data) > 0
         THEN IF Len(X_data) # Len(Y_data) THEN Fail("RowCountMismatch")
              ELSE IF IsRagged(Y_data) THEN Fail("ValueError")
              ELSE Return(SplitColumns(X_data), TagLabels(Y_data))
         ELSE Return(SplitColumns(X_data), <<>>)

(* -------------------------- get_training_data ------------------------- *)

possible_dist == {"uniform", "normal"}

\* the error sampling axis i ends in, "none" when the sample is drawn
AxisError(self, i, dist) ==
    IF i > Len(self.dom_bounds) THEN "IndexError"
    ELSE IF Len(self.dom_bounds[i]) < 2 THEN "IndexError"
    ELSE IF dist = "normal" /\ self.dom_bounds[i][2] < 0 THEN "ValueError"
    ELSE "none"

\* the axes sampled before the comprehension ends: all of them, or those
\* before the first axis that raises
FirstBadAxis(self, dist) ==
    LET bad == {i \in 1..self.problem_dim : AxisError(self, i, dist) # "none"}
    IN  IF bad = {} THEN 0 ELSE CHOOSE i \in bad : \A j \in bad : i <= j

AxesSampled(self, dist) ==
    IF FirstBadAxis(self, dist) = 0 THEN self.problem_dim
    ELSE FirstBadAxis(self, dist) - 1

\* the random source is a deterministic generator: the j-th variate of its
\* s-th sampling call, kept as one bit
Variate(s, j) == (s + j) % 2

\* np.random.uniform(low, high, n) / np.random.normal(loc, scale, n) in
\* generator state s, reshaped to (n,1)
Sample(dist, a, b, n, s) ==
    IF dist = "uniform"
    THEN [j \in 1..n |-> <<a + (b - a) * Variate(s, j)>>]
    ELSE [j \in 1..n |-> <<a + b * (2 * Variate(s, j) - 1)>>]

\* generator state when axis i is sampled: every earlier axis advanced it
\* once, unless the calls draw no variate (n = 0)
StateAt(s, i, n) == IF n > 0 THEN s + (i - 1) ELSE s

GenerateColPoints(self, n, dist, s) ==
    [i \in 1..self.problem_dim |->
        Sample(dist, self.dom_bounds[i][1], self.dom_bounds[i][2], n,
               StateAt(s, i, n))]

\* state of the random source after the collocation branch
RngAfter(self, col, dist, s) ==
    IF dist \notin possible_dist \/ ~col.isCount THEN s
    ELSE StateAt(s, AxesSampled(self, dist) + 1, col.n)

\* the collocation branch: the generated or the prepared point batch
ColPoints(self, col, dist, s, rag) ==
    IF col.isCount
    THEN IF FirstBadAxis(self, dist) # 0
         THEN Fail(AxisError(self, FirstBadAxis(self, dist), dist))
         ELSE Return(GenerateColPoints(self, col.n, dist, s), <<>>)
    ELSE prepare_input_data(self, col.pts, <<>>, rag)

\* Combine with the collocation rows put before the labeled rows
CombineColFirst(bc, Xc, Yc) ==
    Return([i \in 1..Len(bc.X) |-> ConcatRows(Xc[i], bc.X[i])],
           ConcatRows(Yc, bc.Y))

\* the concatenation of the labeled and the collocation batch
Combine(bc, Xc, Yc) ==
    Return([i \in 1..Len(bc.X) |-> ConcatRows(bc.X[i], Xc[i])],
           ConcatRows(bc.Y, Yc))

\* Assemble with the zero labels one column short (no flag column)
AssembleNoFlag(self, X_data, Y_data, Xc, rag) ==
    IF Len(Y_data) = 0 THEN Fail("IndexError")
    ELSE LET Yc == Zeros(Len(Xc[1]), Len(Y_data[1]))
             bc == prepare_input_data(self, X_data, Y_data, rag)
         IN  IF bc.err # "none" THEN bc
             ELSE IF Len(bc.X) # Len(Xc) THEN Fail("ColumnCountMismatch")
             ELSE Combine(bc, Xc, Yc)

\* the part of get_training_data after the collocation branch
Assemble(self, X_data, Y_data, Xc, rag) ==
    IF Len(Y_data) = 0 THEN Fail("IndexError")
    ELSE LET Yc == Zeros(Len(Xc[1]), Len(Y_data[1]) + 1)
             bc == prepare_input_data(self, X_data, Y_data, rag)
         IN  IF bc.err # "none" THEN bc
             ELSE IF Len(bc.X) # Len(Xc) THEN Fail("ColumnCountMismatch")
             ELSE Combine(bc, Xc, Yc)

\* get_training_data with the assertion on dist moved into the sampling
\* branch, where alone dist is used
get_training_data_lazy(self, X_data, Y_data, col, dist, s, rag) ==
    IF col.isCount /\ dist \notin possible_dist
    THEN Fail("UnsupportedDistribution")
    ELSE LET cp == ColPoints(self, col, dist, s, rag)
         IN  IF cp.err # "none" THEN cp
             ELSE Assemble(self, X_data, Y_data, cp.X, rag)

get_training_data(self, X_data, Y_data, col, dist, s, rag) ==
    IF dist \notin possible_dist THEN Fail("UnsupportedDistribution")
    ELSE LET cp == ColPoints(self, col, dist, s, rag)
         IN  IF cp.err # "none" THEN cp
             ELSE Assemble(self, X_data, Y_data, cp.X, rag)

(* ------------------------------ the caller ---------------------------- *)

Count(n) == [isCount |-> TRUE, n |-> n, pts |-> <<>>]

Points(p) == [isCount |-> FALSE, n |-> 0, pts |-> p]

ColInputs == {Count(n) : n \in 0..MaxColPoints} \cup {Points(p) : p \in ColPointInputs}

NoCall ==
    [op |-> "none", space_dim |-> 0, dom_bounds |-> <<>>, time_dep |-> FALSE,
     X_data |-> <<>>, Y_data |-> <<>>, col |-> Count(0), dist |-> "",
     rng0 |-> 0, res |-> Fail("none")]

\* the numpy versions that differ on the arguments: one outcome when no
\* argument is ragged
RaggedChoices(A, B) ==
    IF IsRagged(A) \/ IsRagged(B) THEN RaggedErrors ELSE {"ValueError"}

Init ==
    /\ obj = NoObject
    /\ rng = 0
    /\ last = NoCall

\* Data_preprocess(space_dim, dom_bounds, time_dep)
Construct ==
    /\ last.op = "none"
    /\ ~obj.built
    /\ \E sd \in 1..MaxSpaceDim, b \in BoundsInputs, td \in BOOLEAN :
          /\ obj' = IF InitError(sd, b, td) = "none"
                    THEN NewObject(sd, b, td) ELSE NoObject
          /\ last' = [NoCall EXCEPT !.op = "init", !.space_dim = sd,
                                    !.dom_bounds = b, !.time_dep = td,
                                    !.rng0 = rng,
                                    !.res = Fail(InitError(sd, b, td))]
    /\ UNCHANGED rng

\* obj.prepare_input_data(X_data, Y_data)
Prepare ==
    /\ last.op = "none"
    /\ obj.built
    /\ \E X \in XInputs, Y \in YInputs :
       \E rag \in RaggedChoices(X, <<>>) :
          last' = [NoCall EXCEPT !.op = "prepare", !.X_data = X, !.Y_data = Y,
                                 !.rng0 = rng,
                                 !.res = prepare_input_data(obj, X, Y, rag)]
    /\ UNCHANGED <<obj, rng>>

\* obj.get_training_data(X_data, Y_data, X_col_points, dist)
GetTrainingData ==
    /\ last.op = "none"
    /\ obj.built
    /\ rng + obj.problem_dim <= MaxRng
    /\ \E X \in XInputs, Y \in YInputs, col \in ColInputs, dist \in DistInputs :
       \E rag \in RaggedChoices(X, col.pts) :
          /\ last' = [NoCall EXCEPT
                         !.op = "get_training_data", !.X_data = X,
                         !.Y_data = Y, !.col = col, !.dist = dist,
                         !.rng0 = rng,
                         !.res = get_training_data(obj, X, Y, col, dist, rng, rag)]
          /\ rng' = RngAfter(obj, col, dist, rng)
    /\ UNCHANGED obj

\* the caller drops the returned batches (or the exception) and goes on
Forget ==
    /\ last.op # "none"
    /\ last' = NoCall
    /\ UNCHANGED <<obj, rng>>

Next == Construct \/ Prepare \/ GetTrainingData \/ Forget

Spec == Init /\ [][Next]_vars

(* ------------------------- vocabulary of the claims ------------------- *)

IsPrepare == last.op = "prepare"

IsAssemble == last.op = "get_training_data"

IsInit == last.op = "init"

Returned == last.res.err = "none"

\* at least one row, all rows of width w
IsTable(A, w) == Len(A) >= 1 /\ \A r \in 1..Len(A) : Len(A[r]) = w

\* at least one row, all rows equally wide
IsRect(A) == Len(A) >= 1 /\ ~IsRagged(A)

\* one [low, high] pair per problem dimension
ValidSpec ==
    /\ obj.built
    /\ Len(obj.dom_bounds) = obj.problem_dim
    /\ \A i \in 1..Len(obj.dom_bounds) :
          /\ Len(obj.dom_bounds[i]) = 2
          /\ obj.dom_bounds[i][1] <= obj.dom_bounds[i][2]

\* the columns of a point batch placed side by side again
Reassemble(cols) ==
    [r \in 1..Len(cols[1]) |-> [i \in 1..Len(cols) |-> cols[i][r][1]]]

\* number of collocation rows of the last call
ColRows == IF last.col.isCount THEN last.col.n ELSE Len(last.col.pts)

\* m rows of valid labeled data
LabeledOk ==
    /\ IsTable(last.X_data, obj.problem_dim)
    /\ IsRect(last.Y_data)
    /\ Len(last.Y_data) = Len(last.X_data)

(* -------------------------------- claims ------------------------------ *)

\* C1: for every valid ProblemSpec, all valid labeled data of m >= 1 rows
\* and every count n >= 0, get_training_data returns problem_dim feature
\* columns of m + n rows and m + n label rows, the first m flagged 1.0 and
\* the last n flagged 0.0.
C1_CountAssembles ==
    (IsAssemble /\ ValidSpec /\ LabeledOk /\ last.col.isCount
        /\ last.dist \in possible_dist)
    => LET m == Len(last.X_data)
           n == last.col.n
           o == Len(last.Y_data[1])
       IN  /\ Returned
           /\ Len(last.res.X) = obj.problem_dim
           /\ \A i \in 1..Len(last.res.X) : Len(last.res.X[i]) = m + n
           /\ Len(last.res.Y) = m + n
           /\ \A r \in 1..m : last.res.Y[r][o + 1] = 1
           /\ \A r \in (m + 1)..(m + n) : last.res.Y[r][o + 1] = 0

\* C2: prepare_input_data(X) of a rectangular X of m >= 1 rows of width
\* problem_dim returns problem_dim columns of length m whose side-by-side
\* reassembly is X.
C2_PrepareRoundTrip ==
    (IsPrepare /\ IsTable(last.X_data, obj.problem_dim) /\ last.Y_data = <<>>)
    => /\ Returned
       /\ Len(last.res.X) = obj.problem_dim
       /\ \A i \in 1..Len(last.res.X) :
             /\ Len(last.res.X[i]) = Len(last.X_data)
             /\ \A r \in 1..Len(last.X_data) : Len(last.res.X[i][r]) = 1
       /\ Reassemble(last.res.X) = last.X_data

C2_Witness ==
    /\ IsPrepare /\ Returned /\ last.Y_data = <<>>
    /\ Len(last.X_data) = 2 /\ obj.problem_dim = 2
    /\ last.res.X = << <<<<11>>, <<21>>>>, <<<<12>>, <<22>>>> >>

\* C3: with a valid X and a non-empty rectangular Y of as many rows, the
\* labels prepare_input_data returns have one more column than Y, equal Y
\* in its columns and hold 1.0 in the last column.
C3_LabelsTagged ==
    (IsPrepare /\ LabeledOk)
    => /\ Returned
       /\ Len(last.res.Y) = Len(last.Y_data)
       /\ \A r \in 1..Len(last.Y_data) :
             LET o == Len(last.Y_data[1])
             IN  /\ Len(last.res.Y[r]) = o + 1
                 /\ SubSeq(last.res.Y[r], 1, o) = last.Y_data[r]
                 /\ last.res.Y[r][o + 1] = 1

C3_Witness ==
    /\ IsPrepare /\ Returned
    /\ last.Y_data = << <<111, 112>>, <<121, 122>> >>
    /\ last.res.Y = << <<111, 112, 1>>, <<121, 122, 1>> >>

\* C4: prepare_input_data ends in DimensionMismatch whenever some row of X
\* (the first or a later one) has not exactly problem_dim entries.
C4_EveryRowChecked ==
    (IsPrepare /\ \E r \in 1..Len(last.X_data) :
                     Len(last.X_data[r]) # obj.problem_dim)
    => last.res.err = "DimensionMismatch"

\* bounds are supplied: some interval is given (the default [[]] is not)
Supplied(dom_bounds) == \E i \in 1..Len(dom_bounds) : dom_bounds[i] # <<>>

\* C5: the constructor ends in InvalidDomainSpec whenever supplied bounds
\* have not problem_dim pairs, also when their first pair is empty, and
\* returns when the count matches.
C5_BoundsCountChecked ==
    (IsInit /\ Supplied(last.dom_bounds))
    => (last.res.err = "InvalidDomainSpec"
          <=> Len(last.dom_bounds) # ProblemDim(last.space_dim, last.time_dep))

\* C6: a get_training_data call that ends in one of its precondition
\* failures has not sampled from the random source.
C6_FailuresBeforeSampling ==
    (IsAssemble /\ last.res.err \in {"DimensionMismatch", "RowCountMismatch",
                                     "UnsupportedDistribution",
                                     "ColumnCountMismatch"})
    => rng = last.rng0

\* C7: the labels get_training_data returns end in one all-zero row of
\* width o + 1 per collocation point and begin with the rows of Y_data, in
\* order, each followed by its flag.
C7_ZeroLabels ==
    (IsAssemble /\ Returned)
    => LET m == Len(last.X_data)
           n == ColRows
           o == Len(last.Y_data[1])
       IN  /\ Len(last.res.Y) = m + n
           /\ \A r \in (m + 1)..(m + n) :
                 last.res.Y[r] = [c \in 1..(o + 1) |-> 0]
           /\ \A r \in 1..m :
                 /\ Len(last.res.Y[r]) = o + 1
                 /\ SubSeq(last.res.Y[r], 1, o) = last.Y_data[r]

C7_Witness ==
    /\ IsAssemble /\ Returned /\ last.col.isCount /\ last.col.n = 2
    /\ last.res.Y = << <<111, 112, 1>>, <<121, 122, 1>>, <<0, 0, 0>>, <<0, 0, 0>> >>

\* C8: with explicit collocation points get_training_data leaves the random
\* source as it was, and the rows after the labeled rows of every returned
\* feature column are the supplied points' coordinates, in order.
C8_ExplicitPointsKept ==
    (IsAssemble /\ ~last.col.isCount)
    => /\ rng = last.rng0
       /\ Returned =>
             LET m == Len(last.X_data)
                 n == Len(last.col.pts)
             IN  \A i \in 1..Len(last.res.X) :
                    /\ Len(last.res.X[i]) = m + n
                    /\ \A r \in 1..n :
                          last.res.X[i][m + r] = <<last.col.pts[r][i]>>

C8_Witness ==
    /\ IsAssemble /\ Returned /\ ~last.col.isCount
    /\ Len(last.col.pts) = 2 /\ Len(last.X_data) = 1 /\ obj.problem_dim = 2
    /\ last.res.X = << <<<<11>>, <<211>>, <<221>>>>, <<<<12>>, <<212>>, <<222>>>> >>

\* C9: get_training_data ends in UnsupportedDistribution exactly when dist
\* is neither "uniform" nor "normal", whatever the other arguments.
C9_DistChecked ==
    IsAssemble
    => (last.res.err = "UnsupportedDistribution"
          <=> last.dist \notin {"uniform", "normal"})

C9_Witness ==
    /\ IsAssemble /\ last.dist = "gaussian" /\ ~last.col.isCount
    /\ Len(last.col.pts) = 2 /\ Len(last.col.pts[1]) # obj.problem_dim
    /\ last.res.err = "UnsupportedDistribution"

\* C10: no get_training_data call ends in ColumnCountMismatch; a call that
\* passes that check has problem_dim columns in both point batches.
C10_NoColumnCountMismatch ==
    IsAssemble
    => /\ last.res.err # "ColumnCountMismatch"
       /\ Returned =>
             /\ Len(last.res.X) = obj.problem_dim
             /\ last.col.isCount \/ Len(last.col.pts[1]) = obj.problem_dim
             /\ Len(last.X_data[1]) = obj.problem_dim

C10_Witness ==
    /\ IsAssemble /\ Returned /\ last.col.isCount /\ last.col.n = 1
    /\ obj.problem_dim = 3 /\ Len(last.res.X) = 3

====
